---------------------------- MODULE Spec2Model ----------------------------
(***************************************************************************)
(* Model of the decision core of amdgpud:                                  *)
(*   amdfand/src/config.rs  Config, speed_for_temp, Default, load_config   *)
(*   amdgpu/src/utils.rs    linear_map, hw_mons                            *)
(*                                                                         *)
(* Numbers.  The program's f64 values are modelled as exact numbers: the   *)
(* temperatures and speeds of a curve are integers, and a computed speed   *)
(* is a fraction num/den in lowest terms with den > 0.  A division by zero *)
(* (which f64 turns into an infinity or a NaN) is the outcome "non_finite".*)
(* NaN and infinite inputs and rounding are outside the model.             *)
(*                                                                         *)
(* Indices are 0-based as in the source; At(s, i) reads element i.         *)
(***************************************************************************)
EXTENDS Integers, Sequences, FiniteSets, TLC

VARIABLES
    file,       \* the configuration file at config_path
    result,     \* what the last load_config call returned (or "none" / "Panic")
    calls,      \* the branch each load_config call took, in call order
    sample,     \* the temperature of the last speed_for_temp call
    speed,      \* the outcome of the last speed_for_temp call
    sysfs,      \* the hardware registry under ROOT_DIR
    hwCall,     \* the filter argument of the last hw_mons call
    hwResult,   \* what the last hw_mons call returned
    hwLog       \* the log::info! records of the last hw_mons call, in order

vars == <<file, result, calls, sample, speed, sysfs, hwCall, hwResult, hwLog>>
cfgVars == <<file, result, calls, sample, speed>>
hwVars == <<sysfs, hwCall, hwResult, hwLog>>

(***************************************************************************)
(* Bounds of the model.                                                    *)
(***************************************************************************)
\* the longest speed matrix of a configuration file present at start
MaxLen == 3
\* the number of load_config calls of one run
MaxLoads == 2
\* the most cards under ROOT_DIR
MaxCards == 2

\* temperatures and speeds a configuration file's points are drawn from
TempValues == {10, 13, 40}
SpeedValues == {-1, 0, 40, 100, 101}
\* temperatures read from the sensor: below, on, between and above the
\* points of the files here and of the default matrix
Samples == {1, 4, 10, 11, 13, 20, 40, 41, 46, 60, 80, 160}
\* the card numbers found under ROOT_DIR
CardIds == {0, 1, 2}

(***************************************************************************)
(* Helpers.                                                                *)
(***************************************************************************)
At(s, i) == s[i + 1]

None == [some |-> FALSE, val |-> 0]
Some(v) == [some |-> TRUE, val |-> v]

Abs(n) == IF n < 0 THEN -n ELSE n

RECURSIVE Gcd(_, _)
Gcd(a, b) == IF b = 0 THEN a ELSE Gcd(b, a % b)

\* the f64 value n/d (d > 0), in lowest terms
Frac(n, d) ==
    LET g == Gcd(Abs(n), d)
    IN  [kind |-> "value", num |-> n \div g, den |-> d \div g]

Whole(n) == Frac(n, 1)
NonFinite == [kind |-> "non_finite", num |-> 0, den |-> 0]
Fault(why) == [kind |-> why, num |-> 0, den |-> 0]

(***************************************************************************)
(* amdgpu/src/utils.rs: linear_map                                         *)
(***************************************************************************)
\* mutant: the offset is taken from x2 instead of x1
linear_map_from_x2(x, x1, x2, y1, y2) ==
    IF x2 - x1 = 0
    THEN NonFinite
    ELSE LET sgn == IF x2 - x1 < 0 THEN -1 ELSE 1
             den == sgn * (x2 - x1)
             mnum == sgn * (y2 - y1)
         IN  Frac(mnum * (x - x2) + y1 * den, den)

\* m = (y2 - y1) / (x2 - x1); m * (x - x1) + y1
linear_map(x, x1, x2, y1, y2) ==
    IF x2 - x1 = 0
    THEN NonFinite
    ELSE LET sgn == IF x2 - x1 < 0 THEN -1 ELSE 1
             den == sgn * (x2 - x1)
             mnum == sgn * (y2 - y1)
         IN  Frac(mnum * (x - x1) + y1 * den, den)

(***************************************************************************)
(* amdfand/src/config.rs: Config                                           *)
(***************************************************************************)
MatrixPoint(t, s) == [temp |-> t, speed |-> s]

\* mutant: Iterator::position, the least index whose point satisfies
\* p.temp <= temp
position_le(matrix, temp) ==
    LET hits == {i \in 0..(Len(matrix) - 1) : At(matrix, i).temp <= temp}
    IN  IF hits = {} THEN None
        ELSE Some(CHOOSE i \in hits : \A j \in hits : i <= j)

\* Iterator::rposition: the greatest index whose point satisfies
\* p.temp <= temp, or None
rposition_le(matrix, temp) ==
    LET hits == {i \in 0..(Len(matrix) - 1) : At(matrix, i).temp <= temp}
    IN  IF hits = {} THEN None
        ELSE Some(CHOOSE i \in hits : \A j \in hits : j <= i)

\* mutant: last() in place of first()
min_speed_of_last(matrix) ==
    IF Len(matrix) = 0 THEN Whole(0)
    ELSE Whole(At(matrix, Len(matrix) - 1).speed)

min_speed(matrix) ==
    IF Len(matrix) = 0 THEN Whole(0) ELSE Whole(At(matrix, 0).speed)

max_speed(matrix) ==
    IF Len(matrix) = 0 THEN Whole(100)
    ELSE Whole(At(matrix, Len(matrix) - 1).speed)

speed_for_temp(matrix, temp) ==
    LET found == rposition_le(matrix, temp)
        idx == found.val
    IN  IF ~found.some THEN min_speed(matrix)
        ELSE IF Len(matrix) = 0 THEN Fault("subtract_overflow")
        ELSE IF idx = Len(matrix) - 1 THEN max_speed(matrix)
        ELSE IF idx + 1 >= Len(matrix) \/ idx >= Len(matrix)
             THEN Fault("index_out_of_bounds")
        ELSE linear_map(temp,
                        At(matrix, idx).temp, At(matrix, idx + 1).temp,
                        At(matrix, idx).speed, At(matrix, idx + 1).speed)

TempInput(n) == n

DefaultMatrix ==
    << MatrixPoint(4, 4), MatrixPoint(30, 33), MatrixPoint(45, 50),
       MatrixPoint(60, 66), MatrixPoint(65, 69), MatrixPoint(70, 75),
       MatrixPoint(75, 89), MatrixPoint(80, 100) >>

DefaultConfig ==
    [cards |-> None, log_level |-> "Error",
     speed_matrix |-> DefaultMatrix, temp_input |-> Some(TempInput(1))]


(***************************************************************************)
(* The temp_input string, temp<digits>_input (amdgpu::TempInput; its       *)
(* FromStr and Display are exercised by config.rs's parse_config tests).   *)
(* A string is a sequence of characters.                                   *)
(***************************************************************************)
TempPrefix == <<"t", "e", "m", "p">>
InputSuffix == <<"_", "i", "n", "p", "u", "t">>
DigitChars == <<"0", "1", "2", "3", "4", "5", "6", "7", "8", "9">>

IsDigit(c) == \E d \in 1..10 : DigitChars[d] = c
DigitValue(c) == (CHOOSE d \in 1..10 : DigitChars[d] = c) - 1

RECURSIVE ParseDigits(_)
ParseDigits(s) ==
    IF Len(s) = 0 THEN 0
    ELSE 10 * ParseDigits(SubSeq(s, 1, Len(s) - 1)) + DigitValue(s[Len(s)])

RECURSIVE FormatDigits(_)
FormatDigits(n) ==
    IF n < 10 THEN <<DigitChars[n + 1]>>
    ELSE FormatDigits(n \div 10) \o <<DigitChars[(n % 10) + 1]>>

\* "temp12_input" -> Ok(TempInput(12)); anything else -> InvalidTempInput
ParseTempInput(s) ==
    LET n == Len(s)
    IN  IF /\ n >= Len(TempPrefix) + 1 + Len(InputSuffix)
           /\ SubSeq(s, 1, 4) = TempPrefix
           /\ SubSeq(s, n - 5, n) = InputSuffix
           /\ \A i \in 5..(n - 6) : IsDigit(s[i])
        THEN [ok |-> TRUE, val |-> TempInput(ParseDigits(SubSeq(s, 5, n - 6)))]
        ELSE [ok |-> FALSE, val |-> 0]

FormatTempInput(n) == TempPrefix \o FormatDigits(n) \o InputSuffix

(***************************************************************************)
(* The configuration document: what toml::to_string writes and             *)
(* toml::from_str reads.  A TOML value carries its type.                   *)
(***************************************************************************)
TomlFloat(v) == [type |-> "float", value |-> v]
TomlString(s) == [type |-> "string", value |-> s]
TomlAbsent == [type |-> "absent", value |-> <<>>]

\* toml::to_string(&config): a None field is left out of the document
to_string(config) ==
    [log_level |-> TomlString(config.log_level),
     speed_matrix |->
        [i \in 1..Len(config.speed_matrix) |->
            [temp |-> TomlFloat(config.speed_matrix[i].temp),
             speed |-> TomlFloat(config.speed_matrix[i].speed)]],
     temp_input |->
        IF config.temp_input.some
        THEN TomlString(FormatTempInput(config.temp_input.val))
        ELSE TomlAbsent]

\* toml::from_str(&s): Ok(Config) or a deserialization error
from_str(doc) ==
    LET floats == \A i \in 1..Len(doc.speed_matrix) :
                     /\ doc.speed_matrix[i].temp.type = "float"
                     /\ doc.speed_matrix[i].speed.type = "float"
        input == IF doc.temp_input.type = "string"
                 THEN ParseTempInput(doc.temp_input.value)
                 ELSE [ok |-> doc.temp_input.type = "absent", val |-> 0]
    IN  IF floats /\ input.ok /\ doc.log_level.type = "string"
        THEN [ok |-> TRUE,
              config |->
                [cards |-> None,
                 log_level |-> doc.log_level.value,
                 speed_matrix |->
                    [i \in 1..Len(doc.speed_matrix) |->
                        MatrixPoint(doc.speed_matrix[i].temp.value,
                                    doc.speed_matrix[i].speed.value)],
                 temp_input |-> IF doc.temp_input.type = "string"
                                THEN Some(input.val) ELSE None]]
        ELSE [ok |-> FALSE, config |-> DefaultConfig]

(***************************************************************************)
(* amdfand/src/config.rs: ConfigError and load_config                      *)
(***************************************************************************)
FanSpeedTooLow(value, index) ==
    [kind |-> "FanSpeedTooLow", value |-> value, index |-> index]
FanSpeedTooHigh(value, index) ==
    [kind |-> "FanSpeedTooHigh", value |-> value, index |-> index]
UnsortedFanSpeed(current, index, last) ==
    [kind |-> "UnsortedFanSpeed", current |-> current, index |-> index,
     last |-> last]
UnsortedFanTemp(current, index, last) ==
    [kind |-> "UnsortedFanTemp", current |-> current, index |-> index,
     last |-> last]
IoError == [kind |-> "Io"]
NoError == [kind |-> "none"]

\* mutant: the loop iteration without the unsorted-speed check
check_point_speed_unchecked(matrix, index) ==
    LET matrix_point == At(matrix, index)
        last_point == IF index = 0 THEN None ELSE Some(At(matrix, index - 1))
    IN  IF matrix_point.speed < 0
        THEN FanSpeedTooLow(matrix_point.speed, index)
        ELSE IF matrix_point.speed > 100
        THEN FanSpeedTooHigh(matrix_point.speed, index)
        ELSE IF last_point.some /\ matrix_point.temp < last_point.val.temp
        THEN UnsortedFanTemp(matrix_point.temp, index, last_point.val.temp)
        ELSE NoError

\* one iteration of the validation loop for entry `index`: the error it
\* returns, or NoError when it falls through to last_point = Some(..)
check_point(matrix, index) ==
    LET matrix_point == At(matrix, index)
        last_point == IF index = 0 THEN None ELSE Some(At(matrix, index - 1))
    IN  IF matrix_point.speed < 0
        THEN FanSpeedTooLow(matrix_point.speed, index)
        ELSE IF matrix_point.speed > 100
        THEN FanSpeedTooHigh(matrix_point.speed, index)
        ELSE IF last_point.some /\ matrix_point.speed < last_point.val.speed
        THEN UnsortedFanSpeed(matrix_point.speed, index, last_point.val.speed)
        ELSE IF last_point.some /\ matrix_point.temp < last_point.val.temp
        THEN UnsortedFanTemp(matrix_point.temp, index, last_point.val.temp)
        ELSE NoError

\* mutant: the loop runs to the end and returns the last error found
RECURSIVE validate_to_end(_, _)
validate_to_end(matrix, index) ==
    IF index >= Len(matrix) THEN NoError
    ELSE LET e == check_point(matrix, index)
             later == validate_to_end(matrix, index + 1)
         IN  IF later # NoError THEN later ELSE e

\* the loop `for (index, matrix_point) in speed_matrix.iter().enumerate()`
\* from entry `index` on: the first error returned, or NoError
RECURSIVE validate_from(_, _)
validate_from(matrix, index) ==
    IF index >= Len(matrix) THEN NoError
    ELSE LET e == check_point(matrix, index)
         IN  IF e # NoError THEN e ELSE validate_from(matrix, index + 1)

\* mutant: the error found is logged and dropped
validate_swallowing(config) == [tag |-> "Ok", config |-> config]

validate(config) ==
    LET e == validate_from(config.speed_matrix, 0)
    IN  IF e = NoError THEN [tag |-> "Ok", config |-> config]
        ELSE [tag |-> "Err", error |-> e]

Missing == [kind |-> "missing"]
Unreadable == [kind |-> "unreadable"]
Doc(d) == [kind |-> "doc", doc |-> d]
Panic == [tag |-> "Panic"]

\* mutant: the default configuration is returned without being written
load_config_unwritten(f, write_ok) ==
    IF f.kind = "doc"
    THEN LET parsed == from_str(f.doc)
         IN  IF parsed.ok
             THEN [ret |-> validate(parsed.config), file |-> f,
                   branch |-> "read"]
             ELSE [ret |-> [tag |-> "Panic"], file |-> f, branch |-> "unwrap"]
    ELSE IF f.kind = "missing"
    THEN [ret |-> validate(DefaultConfig), file |-> f, branch |-> "bootstrap"]
    ELSE [ret |-> [tag |-> "Panic"], file |-> f, branch |-> "read_failed"]

\* load_config(config_path) with the file in state f; write_ok says
\* whether std::fs::write succeeds.  Yields what the call returns (or that
\* it panicked), the file afterwards, and the branch of the match taken.
load_config(f, write_ok) ==
    IF f.kind = "doc"
    THEN LET parsed == from_str(f.doc)
         IN  IF parsed.ok
             THEN [ret |-> validate(parsed.config), file |-> f,
                   branch |-> "read"]
             ELSE [ret |-> Panic, file |-> f, branch |-> "unwrap"]
    ELSE IF f.kind = "missing"
    THEN IF write_ok
         THEN [ret |-> validate(DefaultConfig),
               file |-> Doc(to_string(DefaultConfig)),
               branch |-> "bootstrap"]
         ELSE [ret |-> [tag |-> "Err", error |-> IoError], file |-> f,
               branch |-> "write_failed"]
    ELSE [ret |-> Panic, file |-> f, branch |-> "read_failed"]

(***************************************************************************)
(* The configuration side: state, actions, specification.                  *)
(***************************************************************************)
Points == {MatrixPoint(t, s) : t \in TempValues, s \in SpeedValues}
Matrices == UNION {[1..n -> Points] : n \in 0..MaxLen}

\* the temp_input strings of the files present at start: none, a valid
\* one, and one that is not temp<digits>_input
TempInputTexts ==
    {TomlAbsent, TomlString(FormatTempInput(12)),
     TomlString(<<"t", "e", "m", "p", "1", "2">>)}

Documents ==
    {[log_level |-> TomlString("Error"),
      speed_matrix |-> [i \in 1..Len(m) |-> [temp |-> TomlFloat(m[i].temp),
                                             speed |-> TomlFloat(m[i].speed)]],
      temp_input |-> ti] : m \in Matrices, ti \in TempInputTexts}

Files == {Missing, Unreadable} \cup {Doc(d) : d \in Documents}

NoSpeed == Fault("none")

CfgInit ==
    /\ file \in Files
    /\ result = [tag |-> "none"]
    /\ calls = <<>>
    /\ sample = 0
    /\ speed = NoSpeed

LoadConfig ==
    /\ result.tag # "Panic"
    /\ Len(calls) < MaxLoads
    /\ \E write_ok \in BOOLEAN :
          LET r == load_config(file, write_ok)
          IN  /\ result' = r.ret
              /\ file' = r.file
              /\ calls' = Append(calls, r.branch)
    /\ UNCHANGED <<sample, speed>>

SpeedForTemp ==
    /\ result.tag = "Ok"
    /\ \E temp \in Samples :
          /\ sample' = temp
          /\ speed' = speed_for_temp(result.config.speed_matrix, temp)
    /\ UNCHANGED <<file, result, calls>>

CfgIdle ==
    /\ file = Missing
    /\ result = [tag |-> "none"]
    /\ calls = <<>>
    /\ sample = 0
    /\ speed = NoSpeed

(***************************************************************************)
(* amdgpu/src/utils.rs: hw_mons                                            *)
(***************************************************************************)
\* a card directory under ROOT_DIR: its number, whether its hw mon opens,
\* and what the opened HwMon answers to is_amd() and name_is_amd()
Cards == [id : CardIds, opens : BOOLEAN, is_amd : BOOLEAN,
          name_is_amd : BOOLEAN]

\* hw_mon::open_hw_mon(card)
open_hw_mon(card) ==
    IF card.opens
    THEN Some([card |-> card.id, is_amd |-> card.is_amd,
               name_is_amd |-> card.name_is_amd])
    ELSE None

LogOpening(card) == [line |-> "opening hw mon for", card |-> card.id, ok |-> TRUE]
LogVendor(hw_mon) == [line |-> "is vendor ok?", card |-> hw_mon.card, ok |-> hw_mon.is_amd]
LogName(hw_mon) == [line |-> "is hwmon name ok?", card |-> hw_mon.card, ok |-> hw_mon.name_is_amd]

\* .filter(|hw_mon| !filter || { log::info!(..is_amd()); hw_mon.is_amd() })
vendor_filter(filter, hw_mon) ==
    IF ~filter THEN [pass |-> TRUE, log |-> <<>>]
    ELSE [pass |-> hw_mon.is_amd, log |-> <<LogVendor(hw_mon)>>]

\* .filter(|hw_mon| !filter || { log::info!(..name_is_amd()); hw_mon.name_is_amd() })
name_filter(filter, hw_mon) ==
    IF ~filter THEN [pass |-> TRUE, log |-> <<>>]
    ELSE [pass |-> hw_mon.name_is_amd, log |-> <<LogName(hw_mon)>>]

\* mutant: both predicates are evaluated before either decides
pull_eager(card, filter) ==
    LET opened == open_hw_mon(card)
        v == vendor_filter(filter, opened.val)
        n == name_filter(filter, opened.val)
    IN  IF ~opened.some
        THEN [out |-> <<>>, log |-> <<LogOpening(card)>>]
        ELSE [out |-> IF v.pass /\ n.pass THEN <<opened.val>> ELSE <<>>,
              log |-> <<LogOpening(card)>> \o v.log \o n.log]

\* one card pulled through the iterator chain map -> flatten -> filter ->
\* filter: an adapter sees an item only if the adapter before it yields it
pull(card, filter) ==
    LET opened == open_hw_mon(card)
        v == vendor_filter(filter, opened.val)
        n == name_filter(filter, opened.val)
    IN  IF ~opened.some
        THEN [out |-> <<>>, log |-> <<LogOpening(card)>>]
        ELSE IF ~v.pass
        THEN [out |-> <<>>, log |-> <<LogOpening(card)>> \o v.log]
        ELSE IF ~n.pass
        THEN [out |-> <<>>, log |-> <<LogOpening(card)>> \o v.log \o n.log]
        ELSE [out |-> <<opened.val>>,
              log |-> <<LogOpening(card)>> \o v.log \o n.log]

\* mutant: the first card that does not open ends the enumeration
RECURSIVE collect_until_failure(_, _)
collect_until_failure(cards, filter) ==
    IF Len(cards) = 0 THEN [out |-> <<>>, log |-> <<>>]
    ELSE IF ~open_hw_mon(Head(cards)).some
    THEN [out |-> <<>>, log |-> <<LogOpening(Head(cards))>>]
    ELSE LET head == pull(Head(cards), filter)
             rest == collect_until_failure(Tail(cards), filter)
         IN  [out |-> head.out \o rest.out, log |-> head.log \o rest.log]

\* .collect(): the cards are pulled one after the other, in order
RECURSIVE collect(_, _)
collect(cards, filter) ==
    IF Len(cards) = 0 THEN [out |-> <<>>, log |-> <<>>]
    ELSE LET head == pull(Head(cards), filter)
             rest == collect(Tail(cards), filter)
         IN  [out |-> head.out \o rest.out, log |-> head.log \o rest.log]

\* hw_mons(filter) with the registry in state fs: read_cards()? fails the
\* call when ROOT_DIR cannot be read
hw_mons(fs, filter) ==
    IF ~fs.readable
    THEN [ret |-> [tag |-> "Err", error |-> IoError], log |-> <<>>]
    ELSE LET c == collect(fs.cards, filter)
         IN  [ret |-> [tag |-> "Ok", mons |-> c.out], log |-> c.log]

(***************************************************************************)
(* The hardware side: state, actions, specification.                       *)
(***************************************************************************)
\* what read_cards() can list: cards with distinct numbers, in the order
\* read_dir yields them
CardLists ==
    {cs \in UNION {[1..n -> Cards] : n \in 0..MaxCards} :
        \A i, j \in 1..Len(cs) : i # j => cs[i].id # cs[j].id}

Registries == [readable : BOOLEAN, cards : CardLists]

HwIdle ==
    /\ sysfs = [readable |-> TRUE, cards |-> <<>>]
    /\ hwCall = None
    /\ hwResult = [tag |-> "none"]
    /\ hwLog = <<>>

HwInit ==
    /\ sysfs \in Registries
    /\ hwCall = None
    /\ hwResult = [tag |-> "none"]
    /\ hwLog = <<>>

HwMons ==
    /\ \E filter \in BOOLEAN :
          LET r == hw_mons(sysfs, filter)
          IN  /\ hwCall' = Some(filter)
              /\ hwResult' = r.ret
              /\ hwLog' = r.log
    /\ UNCHANGED sysfs

Init == CfgInit /\ HwIdle

Next ==
    \/ LoadConfig /\ UNCHANGED hwVars
    \/ SpeedForTemp /\ UNCHANGED hwVars

Spec == Init /\ [][Next]_vars

InitHw == CfgIdle /\ HwInit

NextHw == HwMons /\ UNCHANGED cfgVars

SpecHw == InitHw /\ [][NextHw]_vars

(***************************************************************************)
(* Properties of the configuration side (checked under Spec).              *)
(***************************************************************************)
Loaded == result.tag = "Ok"
Curve == result.config.speed_matrix
Evaluated == Loaded /\ speed.kind # "none"
First == At(Curve, 0)
Last == At(Curve, Len(Curve) - 1)

\* y1 + (y2 - y1) / (x2 - x1) * (t - x1) for x1 < x2, as an exact number
Affine(p1, p2, t) ==
    Frac(p1.speed * (p2.temp - p1.temp) + (p2.speed - p1.speed) * (t - p1.temp),
         p2.temp - p1.temp)

\* C1 as stated: on a validated non-empty curve every temperature at or
\* below the first point's temperature evaluates to the first point's speed.
C1_AsStated ==
    (Evaluated /\ Len(Curve) > 0 /\ sample <= First.temp)
        => speed = Whole(First.speed)

\* C1 amended: every temperature below the first point's temperature
\* evaluates to the first point's speed, and so does the first point's
\* temperature itself unless the second point has that same temperature.
C1_BelowFirst ==
    (Evaluated /\ Len(Curve) > 0) =>
        /\ sample < First.temp => speed = Whole(First.speed)
        /\ (sample = First.temp /\ (Len(Curve) = 1 \/ At(Curve, 1).temp > First.temp))
              => speed = Whole(First.speed)

C1_Witness ==
    /\ Evaluated /\ Len(Curve) >= 2
    /\ sample = First.temp /\ At(Curve, 1).temp > First.temp
    /\ First.speed # Last.speed
    /\ speed = Whole(First.speed)

\* C2: on a validated non-empty curve every temperature at or above the last
\* point's temperature evaluates to the last point's speed.
C2_AtOrAboveLast ==
    (Evaluated /\ Len(Curve) > 0 /\ sample >= Last.temp)
        => speed = Whole(Last.speed)

C2_Witness ==
    /\ Evaluated /\ Len(Curve) >= 2
    /\ sample > Last.temp /\ First.speed # Last.speed
    /\ speed = Whole(Last.speed)

\* C3 as stated: for adjacent points (x1,y1),(x2,y2) with x1 < x2 and every
\* t in [x1,x2] the evaluation is y1 + (y2-y1)/(x2-x1)*(t-x1), also when
\* other points share x1 or x2.
C3_AsStated ==
    Evaluated =>
        \A i \in 0..(Len(Curve) - 2) :
            LET p1 == At(Curve, i)
                p2 == At(Curve, i + 1)
            IN  (p1.temp < p2.temp /\ p1.temp <= sample /\ sample <= p2.temp)
                    => speed = Affine(p1, p2, sample)

\* C3 amended: the same for every t in [x1,x2), also when other points
\* share x1, and at t = x2 (where it is y2) when the point after (x2,y2),
\* if any, has a temperature above x2.
C3_Affine ==
    Evaluated =>
        \A i \in 0..(Len(Curve) - 2) :
            LET p1 == At(Curve, i)
                p2 == At(Curve, i + 1)
                shared == i + 2 < Len(Curve) /\ At(Curve, i + 2).temp = p2.temp
            IN  (p1.temp < p2.temp /\ p1.temp <= sample /\ sample <= p2.temp) =>
                    /\ (sample < p2.temp \/ ~shared) => speed = Affine(p1, p2, sample)
                    /\ (sample = p1.temp) => speed = Whole(p1.speed)
                    /\ (sample = p2.temp /\ ~shared) => speed = Whole(p2.speed)

C3_Witness ==
    /\ Evaluated /\ Len(Curve) >= 2
    /\ First.temp < sample /\ sample < At(Curve, 1).temp
    /\ speed = Affine(First, At(Curve, 1), sample)
    /\ speed.den > 1

\* the entries of a matrix that break a validation rule
Violates(matrix, i) ==
    \/ At(matrix, i).speed < 0
    \/ At(matrix, i).speed > 100
    \/ i > 0 /\ At(matrix, i).speed < At(matrix, i - 1).speed
    \/ i > 0 /\ At(matrix, i).temp < At(matrix, i - 1).temp

Violating(matrix) == {i \in 0..(Len(matrix) - 1) : Violates(matrix, i)}

\* the configuration the file holds, when the file is a document that parses
Parses == file.kind = "doc" /\ from_str(file.doc).ok
Parsed == from_str(file.doc).config

\* C4: the validation pass returns Ok exactly when no entry has a speed
\* outside [0,100] or a speed or temp below its predecessor's; otherwise it
\* returns the error of the lowest violating index, the kind chosen in the
\* order too low, too high, unsorted speed, unsorted temp, carrying the
\* index, the offending value and, for the unsorted kinds, the predecessor's.
C4_Validation ==
    (Len(calls) > 0 /\ Parses) =>
        LET m == Parsed.speed_matrix
            bad == Violating(m)
            k == CHOOSE i \in bad : \A j \in bad : i <= j
            p == At(m, k)
            q == At(m, k - 1)
        IN  IF bad = {}
            THEN result = [tag |-> "Ok", config |-> Parsed]
            ELSE /\ result.tag = "Err"
                 /\ result.error.index = k
                 /\ result.error =
                      CASE p.speed < 0 ->
                             [kind |-> "FanSpeedTooLow", value |-> p.speed, index |-> k]
                        [] p.speed >= 0 /\ p.speed > 100 ->
                             [kind |-> "FanSpeedTooHigh", value |-> p.speed, index |-> k]
                        [] p.speed >= 0 /\ p.speed <= 100 /\ p.speed < q.speed ->
                             [kind |-> "UnsortedFanSpeed", current |-> p.speed,
                              index |-> k, last |-> q.speed]
                        [] OTHER ->
                             [kind |-> "UnsortedFanTemp", current |-> p.temp,
                              index |-> k, last |-> q.temp]

C4_Witness ==
    /\ Len(calls) > 0 /\ Parses
    /\ Cardinality(Violating(Parsed.speed_matrix)) >= 2
    /\ result.tag = "Err"
    /\ result.error.kind = "UnsortedFanTemp"
    /\ result.error.index = 1

LastCall == calls[Len(calls)]
\* the last load_config call found no file at config_path
FoundNoFile == Len(calls) > 0 /\ LastCall \in {"bootstrap", "write_failed"}

C8_AsStated == result.tag # "Panic"

\* C8 amended: a validation violation makes load_config return
\* Err(ConfigError) and a failed write of the default file Err(Io); a
\* document that does not parse and a read failure other than NotFound
\* make the call panic.
C8_Failures ==
    Len(calls) > 0 =>
        /\ (Parses /\ Violating(Parsed.speed_matrix) # {}) =>
              /\ result.tag = "Err"
              /\ result.error.kind \in {"FanSpeedTooLow", "FanSpeedTooHigh",
                                        "UnsortedFanSpeed", "UnsortedFanTemp"}
        /\ file = Missing => result = [tag |-> "Err", error |-> IoError]
        /\ (file.kind = "doc" /\ ~Parses) => result = Panic
        /\ file = Unreadable => result = Panic
        /\ result.tag \in {"Ok", "Err", "Panic"}

C8_Witness ==
    /\ result = Panic
    /\ file.kind = "doc"
    /\ ~ParseTempInput(file.doc.temp_input.value).ok

\* C9: speed_for_temp returns a number for every curve and temperature: the
\* len() - 1 subtraction is not reached on an empty curve, idx + 1 is an
\* index of the curve whenever linear_map is called, linear_map is called
\* with x1 < x2 only, and the empty curve evaluates to the fallback 0.
C9_Total ==
    /\ Evaluated =>
          /\ speed.kind = "value" /\ speed.den > 0
          /\ Len(Curve) = 0 => speed = Whole(0)
    /\ Parses =>
          \A t \in Samples :
             LET m == Parsed.speed_matrix
                 found == rposition_le(m, t)
             IN  /\ speed_for_temp(m, t).kind = "value"
                 /\ found.some => Len(m) > 0
                 /\ (found.some /\ found.val # Len(m) - 1) =>
                       /\ found.val + 1 < Len(m)
                       /\ At(m, found.val).temp < At(m, found.val + 1).temp

C9_Witness ==
    /\ Evaluated /\ Len(Curve) >= 3
    /\ At(Curve, 0).temp = At(Curve, 1).temp
    /\ At(Curve, 1).temp < At(Curve, 2).temp
    /\ sample = At(Curve, 0).temp
    /\ speed.kind = "value"

\* C10: on a validated non-empty curve the evaluation lies between the first
\* point's speed and the last point's speed, and so in [0,100].
C10_Range ==
    (Evaluated /\ Len(Curve) > 0) =>
        /\ speed.kind = "value" /\ speed.den > 0
        /\ First.speed * speed.den <= speed.num
        /\ speed.num <= Last.speed * speed.den
        /\ 0 <= speed.num
        /\ speed.num <= 100 * speed.den

C10_Witness ==
    /\ Evaluated /\ Len(Curve) > 0
    /\ First.speed * speed.den < speed.num
    /\ speed.num < Last.speed * speed.den
    /\ speed.den > 1

(***************************************************************************)
(* Properties of the hardware side (checked under SpecHw).                 *)
(***************************************************************************)
Called == hwCall.some
Filter == hwCall.val
Listed == sysfs.cards

\* the cards hw_mons is to return
Eligible(card) ==
    card.opens /\ (~Filter \/ (card.is_amd /\ card.name_is_amd))

Logged(line, card) ==
    \E i \in 1..Len(hwLog) : hwLog[i].line = line /\ hwLog[i].card = card.id

\* C6 as stated: with filter set, for every card whose hw mon opened both
\* is_amd and name_is_amd are evaluated and logged, also when is_amd is
\* false.
C6_AsStated ==
    (Called /\ Filter /\ sysfs.readable) =>
        \A i \in 1..Len(Listed) :
            Listed[i].opens =>
                /\ Logged("is vendor ok?", Listed[i])
                /\ Logged("is hwmon name ok?", Listed[i])

\* C6 amended: with filter set, is_amd is evaluated and logged for every
\* card whose hw mon opened, and name_is_amd is evaluated and logged for
\* exactly those of them whose is_amd is true; each logged line carries the
\* predicate's result.
C6_Logged ==
    (Called /\ Filter /\ sysfs.readable) =>
        /\ \A i \in 1..Len(Listed) :
              /\ Logged("is vendor ok?", Listed[i]) <=> Listed[i].opens
              /\ Logged("is hwmon name ok?", Listed[i])
                    <=> (Listed[i].opens /\ Listed[i].is_amd)
        /\ \A k \in 1..Len(hwLog) :
              \E i \in 1..Len(Listed) :
                  /\ hwLog[k].card = Listed[i].id
                  /\ hwLog[k].line = "is vendor ok?" => hwLog[k].ok = Listed[i].is_amd
                  /\ hwLog[k].line = "is hwmon name ok?"
                        => hwLog[k].ok = Listed[i].name_is_amd

C6_Witness ==
    /\ Called /\ Filter /\ sysfs.readable
    /\ Len(Listed) = 2
    /\ Listed[1].opens /\ ~Listed[1].is_amd /\ Listed[1].name_is_amd
    /\ Listed[2].opens /\ Listed[2].is_amd
    /\ Logged("is vendor ok?", Listed[1])
    /\ ~Logged("is hwmon name ok?", Listed[1])
    /\ Logged("is hwmon name ok?", Listed[2])

=============================================================================
